---- MODULE Spec2Model ----
(***************************************************************************)
(* Model of the try-on orchestrator of the virtual try-on project:        *)
(*   backend/utils/inference.py       InferencePipeline                    *)
(*   backend/utils/image_processor.py ImageProcessor: resize, base64 codec *)
(*   backend/utils/masking.py         SemanticMasker                       *)
(*   backend/routes/api.py            the request handlers                 *)
(*   config.py                        MAX_IMAGE_SIZE, DEVICE, MASK_*       *)
(*                                                                         *)
(* Image objects live in a heap (heap[id] is the size of the object), so   *)
(* that an in-place change of an Image is visible to the caller.           *)
(* Confidences are integers in hundredths: 100 stands for the float 1.0.   *)
(***************************************************************************)
EXTENDS Integers, Sequences, FiniteSets, TLC

VARIABLES
    self,            \* the InferencePipeline object: device and components
    cudaCached,      \* device memory held by torch's caching allocator
    heap,            \* Image objects: id -> <<width, height>>
    orig,            \* heap as it was when the caller made the current call
    op,              \* the last call made: "idle", "generate_try_on", ...
    bpc,             \* position inside batch_try_on
    batch,           \* batch_try_on's arguments and locals
    gpc,             \* position inside generate_try_on
    frame,           \* generate_try_on's arguments and locals
    log,             \* stages entered by the current generate_try_on call
    rz,              \* resize_image applied to one image (SpecResize)
    mk,              \* a mask going through SemanticMasker (SpecMask)
    pr,              \* _generate_prompt applied to one category (SpecPrompt)
    cd,              \* an image going through the base64 codec (SpecCodec)
    srv              \* the API server: event loop and requests (SpecServer)

vars == <<self, cudaCached, heap, orig, op, bpc, batch, gpc, frame, log, rz,
          mk, pr, cd, srv>>

\* Python's None where a string is expected; an optional value of another
\* type is <<>> (None) or <<v>>.
None == "<None>"

\* -------------------------------------------------------------- bounds
MaxBatch == 2        \* longest list given to batch_try_on
MaxCached == 2       \* cap on the modelled cached device memory
NearBound == 4       \* sizes within this distance of 1 and of MAX_IMAGE_SIZE
GridW == 60          \* number of widths on the grid of SpecResize
GridH == 60          \* number of heights on the grid of SpecResize
StepW == 37          \* distance between grid widths
StepH == 41         \* distance between grid heights

\* ----------------------------------------------------- program constants
MAX_W == 768         \* config.MAX_IMAGE_SIZE[0]
MAX_H == 1024        \* config.MAX_IMAGE_SIZE[1]
ConfOne == 100       \* the float 1.0 of "confidence = 1.0", in hundredths

Min(a, b) == IF a <= b THEN a ELSE b
Max(a, b) == IF a >= b THEN a ELSE b

\* ------------------------------------------------ PIL Image.thumbnail
\* floor and ceiling of the rational n / d, d > 0
FloorDiv(n, d) == n \div d
CeilDiv(n, d) == IF n % d = 0 THEN n \div d ELSE (n \div d) + 1

\* |a/b - c/d| <= |a/b - e/f| for positive b, d, f, decided on integers.
AbsDiff(a, b) == IF a >= b THEN a - b ELSE b - a
CloserOrEqual(a, b, c, d, e, f) ==
    AbsDiff(a * d, c * b) * f <= AbsDiff(a * f, e * b) * d

\* round_aspect(number, key) of thumbnail for the width: number = y * w / h,
\* key(n) = abs(aspect - n / y); min(floor, ceil, key) keeps floor on a tie.
round_aspect_x(w, h, y) ==
    LET lo == FloorDiv(y * w, h)
        hi == CeilDiv(y * w, h)
        pick == IF CloserOrEqual(w, h, lo, y, hi, y) THEN lo ELSE hi
    IN  Max(pick, 1)

\* round_aspect for the height: number = x / aspect = x * h / w,
\* key(n) = 0 if n == 0 else abs(aspect - x / n).
round_aspect_y(w, h, x) ==
    LET lo == FloorDiv(x * h, w)
        hi == CeilDiv(x * h, w)
        pick == IF lo = 0 THEN lo
                ELSE IF CloserOrEqual(w, h, x, lo, x, hi) THEN lo ELSE hi
    IN  Max(pick, 1)

\* A variant that always fits the width and never looks at the height bound.
preserve_aspect_ratio_width_only(w, h, x, y) ==
    IF x >= w /\ y >= h THEN <<w, h>>
    ELSE <<x, round_aspect_y(w, h, x)>>

\* preserve_aspect_ratio(): the size thumbnail gives an image of size
\* <<w, h>>, h > 0, under the bound <<x, y>>; the image is left alone when it
\* fits.
preserve_aspect_ratio(w, h, x, y) ==
    IF x >= w /\ y >= h THEN <<w, h>>
    ELSE IF x * h >= w * y                      \* x / y >= aspect
         THEN <<round_aspect_x(w, h, y), y>>
         ELSE <<x, round_aspect_y(w, h, x)>>

\* thumbnail divides by the height: a zero-height image that does not fit
\* raises ZeroDivisionError.
thumbnail_raises(size) ==
    size[2] = 0 /\ ~(MAX_W >= size[1] /\ MAX_H >= size[2])

\* ImageProcessor.resize_image: image.thumbnail(max_size) changes the Image
\* in place and the same object is returned; this is the object's new size.
resize_image(size) ==
    preserve_aspect_ratio(size[1], size[2], MAX_W, MAX_H)

\* ------------------------------------------------------------ the data
PERSON == "person"
GARMENT == "garment"
ImgIds == {PERSON, GARMENT}

ZeroArea(size) == size[1] = 0 \/ size[2] = 0

\* str.lower() on the category strings of the model
lower(s) ==
    CASE s = "Hat" -> "hat"
      [] s = "HAT" -> "hat"
      [] s = "T-Shirt" -> "t-shirt"
      [] s = "Poncho" -> "poncho"
      [] OTHER -> s

\* backend.models.ClothingClassifier.classify, by its contract (spec 4.4):
\* a label and a confidence. The adapter is opaque, so the model lets it
\* answer anything of a sample that holds valid answers (confidence in
\* [0, 1], 1.0 included, and below config.CONFIDENCE_THRESHOLD down to 0.0)
\* and invalid ones (empty label, confidence 1.5).
ClassifierOutputs ==
    { [garment_type |-> "hat", confidence |-> 87],
      [garment_type |-> "shirt", confidence |-> 100],
      [garment_type |-> "dress", confidence |-> 49],
      [garment_type |-> "shirt", confidence |-> 0],
      [garment_type |-> "", confidence |-> 50],
      [garment_type |-> "hat", confidence |-> 150] }

ValidClassification(c) ==
    c.confidence >= 0 /\ c.confidence <= 100 /\ c.garment_type # ""

\* The largest power of two that is at most k, k >= 1.
RECURSIVE Pow2Below(_)
Pow2Below(k) == IF k < 2 THEN 1 ELSE 2 * Pow2Below(k \div 2)

\* int(n * c) for a constant c = p / 100 of the region table, n >= 0, as
\* float arithmetic gives it. The product is computed in doubles and int()
\* truncates it: for every constant of the table but 0.35 this is the exact
\* floor of n * p / 100. The double nearest to 0.35 is below 0.35 by
\* (4/7) * 2^-53 of its value, so where n * 0.35 is an integer k in the upper
\* quarter of its binade (4 * k > 7 * 2^e, 2^e <= k) the product rounds to
\* the double below k and int() gives k - 1 (int(180 * 0.35) is 62).
Pct(n, p) ==
    LET k == (n * p) \div 100 IN
    IF p = 35 /\ n % 20 = 0 /\ k > 0 /\ 4 * k > 7 * Pow2Below(k)
    THEN k - 1
    ELSE k

\* A variant whose default is the rectangle of "hat".
garment_region_default_hat(width, height, garment_type) ==
    <<0, 0, width, Pct(height, 15)>>

\* SemanticMasker.create_garment_region_mask: the rectangle of the category
\* in an image of the given width and height, full frame for a category the
\* table does not hold.
garment_region(width, height, garment_type) ==
    LET t == lower(garment_type) IN
    CASE t = "hat" -> <<0, 0, width, Pct(height, 15)>>
      [] t = "glasses" -> <<Pct(width, 25), Pct(height, 15), Pct(width, 75), Pct(height, 25)>>
      [] t = "shirt" -> <<0, Pct(height, 15), width, Pct(height, 60)>>
      [] t = "t-shirt" -> <<0, Pct(height, 15), width, Pct(height, 50)>>
      [] t = "blouse" -> <<0, Pct(height, 15), width, Pct(height, 55)>>
      [] t = "dress" -> <<0, Pct(height, 15), width, Pct(height, 85)>>
      [] t = "jacket" -> <<0, Pct(height, 15), width, Pct(height, 65)>>
      [] t = "pants" -> <<0, Pct(height, 45), width, Pct(height, 90)>>
      [] t = "jeans" -> <<0, Pct(height, 45), width, Pct(height, 90)>>
      [] t = "skirt" -> <<0, Pct(height, 40), width, Pct(height, 75)>>
      [] t = "shoes" -> <<0, Pct(height, 85), width, height>>
      [] t = "scarf" -> <<Pct(width, 20), Pct(height, 20), Pct(width, 80), Pct(height, 35)>>
      [] OTHER -> <<0, 0, width, height>>

\* The mask as the orchestrator sees it: an array of shape (height, width)
\* made from the person image as it is when the mask is created.
create_garment_region_mask(size, garment_type) ==
    [ shape |-> <<size[2], size[1]>>,
      region |-> garment_region(size[1], size[2], garment_type),
      refined |-> FALSE ]

\* A variant that hands the mask on as it is, unrefined.
refine_mask_skip(mask) == mask

\* SemanticMasker.refine_mask keeps the shape of the mask.
refine_mask(mask) == [mask EXCEPT !.refined = TRUE]

\* A variant whose fallback clause is built from the lower-cased category.
garment_detail_lowercased(garment_type) ==
    "wearing " \o lower(garment_type)

\* A variant that starts the prompt with the base_prompt argument.
_generate_prompt_from_base(garment_type, base_prompt) ==
    base_prompt \o ", photorealistic, high quality, "
        \o "professional photography, natural lighting, detailed fabric texture"

\* InferencePipeline._generate_prompt
garment_detail(garment_type) ==
    LET t == lower(garment_type) IN
    CASE t = "hat" -> "wearing a stylish hat"
      [] t = "cap" -> "wearing a cap"
      [] t = "glasses" -> "wearing glasses"
      [] t = "sunglasses" -> "wearing sunglasses"
      [] t = "shirt" -> "wearing a button-up shirt"
      [] t = "t-shirt" -> "wearing a t-shirt"
      [] t = "blouse" -> "wearing a blouse"
      [] t = "dress" -> "wearing a dress"
      [] t = "jacket" -> "wearing a jacket"
      [] t = "coat" -> "wearing a coat"
      [] t = "sweater" -> "wearing a sweater"
      [] t = "hoodie" -> "wearing a hoodie"
      [] t = "pants" -> "wearing pants"
      [] t = "jeans" -> "wearing jeans"
      [] t = "skirt" -> "wearing a skirt"
      [] t = "shoes" -> "wearing shoes"
      [] t = "scarf" -> "wearing a scarf"
      [] t = "tie" -> "wearing a tie"
      [] OTHER -> "wearing " \o garment_type

_generate_prompt(garment_type, base_prompt) ==
    "A person " \o garment_detail(garment_type)
        \o ", photorealistic, high quality, "
        \o "professional photography, natural lighting, detailed fabric texture"

\* ------------------------------------------------- generate_try_on
\* The stages of generate_try_on in the order of the code (lines 92-125).
StageOrder ==
    << "resize_person", "resize_garment", "classify",
       "create_garment_region_mask", "refine_mask", "_generate_prompt",
       "pipeline" >>

NoFrame ==
    [ person |-> None, garment |-> None, arg_type |-> None,
      garment_type |-> None, classification |-> <<>>, confidence |-> <<>>,
      mask |-> <<>>, mask_image |-> <<>>, prompt |-> <<>>,
      result |-> <<>>, exc |-> None ]

\* A variant that lower-cases the category on entry.
NewFrameLowered(p, g, t) ==
    [NoFrame EXCEPT !.person = p, !.garment = g, !.arg_type = t,
                    !.garment_type = lower(t)]

\* The frame of a call generate_try_on(person_image, garment_image,
\* garment_type): the images are references to the caller's objects.
NewFrame(p, g, t) ==
    [NoFrame EXCEPT !.person = p, !.garment = g, !.arg_type = t,
                    !.garment_type = t]

\* A variant that asks the classifier whatever the caller passed.
needs_classifier_always(garment_type) == TRUE

\* "if garment_type is None" (line 96)
needs_classifier(garment_type) == garment_type = None

\* "else: confidence = 1.0" (line 101)
supplied_confidence == ConfOne

\* A variant that runs the failed stage again instead of raising.
on_exception_retry(stage) == stage

\* "except Exception as e: logger.error(...); raise" (lines 140-142): where
\* generate_try_on goes when the given stage raises.
on_exception(stage) == "raised"

\* A stage raises: the exception leaves generate_try_on; nothing is returned.
Raise(stage) ==
    /\ gpc' = on_exception(stage)
    /\ frame' = [frame EXCEPT !.exc = stage]

\* person_image = self.processor.resize_image(person_image)   (line 92)
ResizePerson ==
    /\ gpc = "resize_person"
    /\ log' = Append(log, "resize_person")
    /\ \/ /\ ~thumbnail_raises(heap[frame.person])
          /\ heap' = [heap EXCEPT ![frame.person] = resize_image(@)]
          /\ gpc' = "resize_garment"
          /\ UNCHANGED frame
       \/ /\ Raise("resize_person")
          /\ UNCHANGED heap
    /\ UNCHANGED <<self, cudaCached, orig, op, bpc, batch, rz,
                   mk, pr, cd, srv>>

\* garment_image = self.processor.resize_image(garment_image)   (line 93)
ResizeGarment ==
    /\ gpc = "resize_garment"
    /\ log' = Append(log, "resize_garment")
    /\ \/ /\ ~thumbnail_raises(heap[frame.garment])
          /\ heap' = [heap EXCEPT ![frame.garment] = resize_image(@)]
          /\ gpc' = "classify"
          /\ UNCHANGED frame
       \/ /\ Raise("resize_garment")
          /\ UNCHANGED heap
    /\ UNCHANGED <<self, cudaCached, orig, op, bpc, batch, rz,
                   mk, pr, cd, srv>>

CONFIDENCE_THRESHOLD == 50     \* config.CONFIDENCE_THRESHOLD = 0.5, in hundredths

\* A variant that gives up on a classification below the threshold.
after_classify_gated(classification) ==
    IF classification.confidence < CONFIDENCE_THRESHOLD
    THEN "raised"
    ELSE "create_garment_region_mask"

\* Where generate_try_on goes with the classifier's answer (lines 97-106):
\* label and confidence are stored and the mask is created next; no
\* statement compares the confidence with anything.
after_classify(classification) == "create_garment_region_mask"

\* Lines 95-101: the classifier is asked only when no category was given.
Classify ==
    /\ gpc = "classify"
    /\ IF needs_classifier(frame.garment_type)
       THEN /\ log' = Append(log, "classify")
            /\ \/ \E c \in ClassifierOutputs :
                    /\ frame' = [frame EXCEPT !.classification = <<c>>,
                                              !.garment_type = c.garment_type,
                                              !.confidence = <<c.confidence>>]
                    /\ gpc' = after_classify(c)
               \/ Raise("classify")
       ELSE /\ frame' = [frame EXCEPT !.confidence = <<supplied_confidence>>]
            /\ gpc' = "create_garment_region_mask"
            /\ UNCHANGED log
    /\ UNCHANGED <<self, cudaCached, heap, orig, op, bpc, batch, rz,
                   mk, pr, cd, srv>>

\* mask = self.masker.create_garment_region_mask(person_image, garment_type)
\* (line 106); person_image is the object resized at line 92.
CreateMask ==
    /\ gpc = "create_garment_region_mask"
    /\ log' = Append(log, "create_garment_region_mask")
    /\ \/ /\ frame' = [frame EXCEPT !.mask =
                 <<create_garment_region_mask(heap[frame.person],
                                              frame.garment_type)>>]
          /\ gpc' = "refine_mask"
       \/ Raise("create_garment_region_mask")
    /\ UNCHANGED <<self, cudaCached, heap, orig, op, bpc, batch, rz,
                   mk, pr, cd, srv>>

\* mask = self.masker.refine_mask(mask); mask_image = Image.fromarray(mask)
\* (lines 107-110)
RefineMask ==
    /\ gpc = "refine_mask"
    /\ log' = Append(log, "refine_mask")
    /\ \/ /\ frame' = [frame EXCEPT !.mask = <<refine_mask(frame.mask[1])>>,
                                    !.mask_image = <<refine_mask(frame.mask[1])>>]
          /\ gpc' = "_generate_prompt"
       \/ Raise("refine_mask")
    /\ UNCHANGED <<self, cudaCached, heap, orig, op, bpc, batch, rz,
                   mk, pr, cd, srv>>

\* prompt = self._generate_prompt(garment_type, "person wearing ...") (113)
GeneratePrompt ==
    /\ gpc = "_generate_prompt"
    /\ log' = Append(log, "_generate_prompt")
    /\ \/ /\ frame' = [frame EXCEPT !.prompt =
                 <<_generate_prompt(frame.garment_type,
                                    "person wearing high-quality clothing")>>]
          /\ gpc' = "pipeline"
       \/ Raise("_generate_prompt")
    /\ UNCHANGED <<self, cudaCached, heap, orig, op, bpc, batch, rz,
                   mk, pr, cd, srv>>

\* Inference on the accelerated device leaves memory in torch's cache.
after_inference(device, cached) ==
    IF device = "cuda" THEN Min(cached + 1, MaxCached) ELSE cached

\* Lines 117-138: the generator is run on the person image, the mask image
\* and the prompt; its image has the size of the person image; the result
\* record is returned.
RunPipeline ==
    /\ gpc = "pipeline"
    /\ log' = Append(log, "pipeline")
    /\ cudaCached' = after_inference(self.device, cudaCached)
    /\ \/ /\ frame' = [frame EXCEPT !.result =
                 << [ result_image |-> heap[frame.person],
                      garment_detected |-> frame.garment_type,
                      confidence |-> frame.confidence[1],
                      mask |-> frame.mask_image[1] ] >>]
          /\ gpc' = "returned"
       \/ Raise("pipeline")
    /\ UNCHANGED <<self, heap, orig, op, bpc, batch, rz,
                   mk, pr, cd, srv>>

Stage ==
    \/ ResizePerson
    \/ ResizeGarment
    \/ Classify
    \/ CreateMask
    \/ RefineMask
    \/ GeneratePrompt
    \/ RunPipeline

\* ------------------------------------------------------ the callers
\* Sizes of the images callers hand in: within the bound, above it in both
\* dimensions, above it in width only, and a zero-width image.
PersonSizes == { <<512, 512>>, <<1536, 2048>>, <<0, 512>> }
GarmentSizes == { <<512, 512>>, <<2000, 1000>> }

\* Categories a caller passes to generate_try_on (None: auto-detect).
CallerTypes == { None, "hat", "Hat", "poncho" }

NoBatch ==
    [ person_images |-> <<>>, garment_images |-> <<>>,
      garment_types |-> <<>>, types_given |-> FALSE,
      i |-> 0, results |-> <<>>, exc |-> None ]

NoResize == [ stage |-> "off", input |-> <<1, 1>>, once |-> <<1, 1>>,
              twice |-> <<1, 1>> ]

\* The parts of the state that belong to the other specifications, at rest.
NoMask ==
    [ pc |-> "off", width |-> 0, height |-> 0, garment_type |-> None,
      region |-> <<>>, px |-> <<>>, k |-> 0, stats |-> <<>>, exc |-> None ]
NoPrompt == [ pc |-> "off", garment_type |-> None, base_prompt |-> None,
              prompt |-> None ]
NoCodec == [ pc |-> "off", size |-> <<1, 1>>, mode |-> None, text |-> <<>>,
             decoded |-> <<>>, exc |-> None ]
NoServer == [ loop |-> 0, pc |-> <<>>, handler |-> <<>>, pipeline |-> 0,
              instance |-> 0, got |-> <<>>, failed |-> {},
              inferring |-> {}, clearing |-> {} ]
AtRest == mk = NoMask /\ pr = NoPrompt /\ cd = NoCodec /\ srv = NoServer

\* InferencePipeline.__init__: the device and the loaded components.
NewPipeline(device) ==
    [ device |-> device, classifier |-> "ClothingClassifier",
      processor |-> "ImageProcessor", masker |-> "SemanticMasker",
      pipeline |-> "StableDiffusionInpaintPipeline" ]

\* The state once the pipeline is constructed (config.DEVICE is "cuda" or
\* "cpu") and the caller holds a person and a garment image.
Init ==
    /\ \E d \in {"cuda", "cpu"} : self = NewPipeline(d)
    /\ cudaCached = 0
    /\ heap \in { [id \in ImgIds |-> IF id = PERSON THEN ps ELSE gs] :
                    ps \in PersonSizes, gs \in GarmentSizes }
    /\ orig = heap
    /\ op = "idle"
    /\ bpc = "idle"
    /\ batch = NoBatch
    /\ gpc = "none"
    /\ frame = NoFrame
    /\ log = <<>>
    /\ rz = NoResize
    /\ AtRest

Idle == gpc = "none" /\ bpc = "idle"

\* A caller (routes/api.py virtual_tryon, frontend/app.py process_try_on)
\* calls pipeline.generate_try_on(person_image, garment_image, garment_type).
CallGenerate ==
    /\ Idle
    /\ \E t \in CallerTypes :
          frame' = NewFrame(PERSON, GARMENT, t)
    /\ gpc' = "resize_person"
    /\ op' = "generate_try_on"
    /\ orig' = heap
    /\ log' = <<>>
    /\ UNCHANGED <<self, cudaCached, heap, bpc, batch, rz,
                   mk, pr, cd, srv>>

\* The caller has the result, or the exception, of its generate_try_on call.
FinishGenerate ==
    /\ bpc = "idle"
    /\ gpc \in {"returned", "raised"}
    /\ gpc' = "none"
    /\ frame' = NoFrame
    /\ log' = <<>>
    /\ op' = "idle"
    /\ UNCHANGED <<self, cudaCached, heap, orig, bpc, batch, rz,
                   mk, pr, cd, srv>>

\* A variant that frees memory by dropping the loaded generator as well.
clear_cache_unload(pipe, cached) ==
    <<[pipe EXCEPT !.pipeline = None], 0>>

\* InferencePipeline.clear_cache (lines 214-217):
\*   torch.cuda.empty_cache() if self.device == "cuda" else None
\* as the new <<self, cudaCached>>.
clear_cache(pipe, cached) ==
    IF pipe.device = "cuda" THEN <<pipe, 0>> ELSE <<pipe, cached>>

\* routes/api.py clear_cache: get_pipeline().clear_cache() between requests.
CallClearCache ==
    /\ Idle
    /\ self' = clear_cache(self, cudaCached)[1]
    /\ cudaCached' = clear_cache(self, cudaCached)[2]
    /\ op' = "clear_cache"
    /\ UNCHANGED <<heap, orig, bpc, batch, gpc, frame, log, rz,
                   mk, pr, cd, srv>>

Next ==
    \/ CallGenerate
    \/ Stage
    \/ FinishGenerate
    \/ CallClearCache

Spec == Init /\ [][Next]_vars

\* ---------------------------------------------------- batch_try_on
\* Categories in the garment_types list of a batch (None: auto-detect).
BatchTypes == { None, "hat" }

SeqsUpTo(S, n) == UNION { [1..k -> S] : k \in 0..n }

\* zip(person_images, garment_images) stops at the shorter list.
NumItems == Min(Len(batch.person_images), Len(batch.garment_images))

\* A caller calls batch_try_on(person_images, garment_images, garment_types)
\* with lists of any lengths; the same Image object may be listed again.
\* results = []   (line 202)
CallBatch ==
    /\ Idle
    /\ \E np \in 0..MaxBatch, ng \in 0..MaxBatch, given \in BOOLEAN,
          ts \in SeqsUpTo(BatchTypes, MaxBatch) :
          /\ given \/ ts = <<>>
          /\ batch' = [ person_images |-> [k \in 1..np |-> PERSON],
                        garment_images |-> [k \in 1..ng |-> GARMENT],
                        garment_types |-> ts, types_given |-> given,
                        i |-> 0, results |-> <<>>, exc |-> None ]
    /\ bpc' = "loop"
    /\ op' = "batch_try_on"
    /\ orig' = heap
    /\ log' = <<>>
    /\ UNCHANGED <<self, cudaCached, heap, gpc, frame, rz,
                   mk, pr, cd, srv>>

\* "garment_types[i] if garment_types else None" (line 204), outside the try:
\* None and the empty list are falsy; an index past the list raises
\* IndexError. "IndexError" stands for the exception, any other value for
\* the category.
item_type(given, types, i) ==
    IF given /\ types # <<>>
    THEN IF i + 1 <= Len(types) THEN types[i + 1] ELSE "IndexError"
    ELSE None

\* The loop takes the next pair (lines 203-206): with its category resolved
\* it calls generate_try_on; an IndexError leaves batch_try_on.
BatchItem ==
    /\ bpc = "loop"
    /\ gpc = "none"
    /\ batch.i < NumItems
    /\ LET t == item_type(batch.types_given, batch.garment_types, batch.i) IN
       IF t = "IndexError"
       THEN /\ bpc' = "raised"
            /\ batch' = [batch EXCEPT !.exc = "IndexError"]
            /\ UNCHANGED <<gpc, frame, log>>
       ELSE /\ frame' = NewFrame(batch.person_images[batch.i + 1],
                                 batch.garment_images[batch.i + 1], t)
            /\ gpc' = "resize_person"
            /\ log' = <<>>
            /\ UNCHANGED <<bpc, batch>>
    /\ UNCHANGED <<self, cudaCached, heap, orig, op, rz,
                   mk, pr, cd, srv>>

\* results.append(result), or in the except clause
\* results.append({"error": str(e)})   (lines 207-210)
BatchCollect ==
    /\ bpc = "loop"
    /\ gpc \in {"returned", "raised"}
    /\ batch' = [batch EXCEPT
                   !.results = Append(@, IF gpc = "returned"
                                         THEN frame.result[1]
                                         ELSE [error |-> frame.exc]),
                   !.i = @ + 1]
    /\ gpc' = "none"
    /\ frame' = NoFrame
    /\ log' = <<>>
    /\ UNCHANGED <<self, cudaCached, heap, orig, op, bpc, rz,
                   mk, pr, cd, srv>>

\* return results   (line 212)
BatchReturn ==
    /\ bpc = "loop"
    /\ gpc = "none"
    /\ batch.i = NumItems
    /\ bpc' = "returned"
    /\ UNCHANGED <<self, cudaCached, heap, orig, op, batch, gpc, frame, log, rz,
                   mk, pr, cd, srv>>

\* The caller has the list, or the exception, of its batch_try_on call.
FinishBatch ==
    /\ bpc \in {"returned", "raised"}
    /\ bpc' = "idle"
    /\ batch' = NoBatch
    /\ op' = "idle"
    /\ UNCHANGED <<self, cudaCached, heap, orig, gpc, frame, log, rz,
                   mk, pr, cd, srv>>

\* Batches on one device, with a garment image that fits the bound.
InitBatch ==
    /\ Init
    /\ self.device = "cpu"
    /\ heap[GARMENT] = <<512, 512>>

NextBatch ==
    \/ CallBatch
    \/ BatchItem
    \/ Stage
    \/ BatchCollect
    \/ BatchReturn
    \/ FinishBatch

SpecBatch == InitBatch /\ [][NextBatch]_vars

\* ------------------------------------------- resize_image on its own
Near(n) == { k \in (n - NearBound)..(n + NearBound) : k >= 1 }
Widths == Near(1) \cup Near(MAX_W) \cup { k * StepW : k \in 1..GridW }
Heights == Near(1) \cup Near(MAX_H) \cup { k * StepH : k \in 1..GridH }

InitResize ==
    /\ self = NewPipeline("cpu")
    /\ cudaCached = 0
    /\ heap = [id \in ImgIds |-> <<512, 512>>]
    /\ orig = heap
    /\ op = "idle"
    /\ bpc = "idle"
    /\ batch = NoBatch
    /\ gpc = "none"
    /\ frame = NoFrame
    /\ log = <<>>
    /\ \E w \in Widths, h \in Heights :
          rz = [NoResize EXCEPT !.stage = "input", !.input = <<w, h>>]
    /\ AtRest

\* resize_image on an image of the input size
ResizeOnce ==
    /\ rz.stage = "input"
    /\ rz' = [rz EXCEPT !.stage = "once", !.once = resize_image(rz.input)]
    /\ UNCHANGED <<self, cudaCached, heap, orig, op, bpc, batch, gpc, frame, log,
                   mk, pr, cd, srv>>

\* resize_image on its own result
ResizeTwice ==
    /\ rz.stage = "once"
    /\ rz' = [rz EXCEPT !.stage = "twice", !.twice = resize_image(rz.once)]
    /\ UNCHANGED <<self, cudaCached, heap, orig, op, bpc, batch, gpc, frame, log,
                   mk, pr, cd, srv>>

NextResize ==
    \/ ResizeOnce
    \/ ResizeTwice

SpecResize == InitResize /\ [][NextResize]_vars

\* ------------------------------------------- SemanticMasker on pixels
\* A mask is an array of shape (height, width): a function from the pixels
\* <<row, column>> to values 0..255.
MASK_DILATION_KERNEL == 15     \* config.MASK_DILATION_KERNEL
MASK_BLUR_SIZE == 5            \* config.MASK_BLUR_SIZE = (5, 5)
REFINE_KERNEL == 5             \* the (5, 5) of refine_mask
REFINE_ITERATIONS == 2         \* refine_mask's iterations
White == 255                   \* the colour cv2.rectangle draws with

Pixels(width, height) == (0..(height - 1)) \X (0..(width - 1))

\* np.zeros((height, width), dtype=np.uint8)
zeros(width, height) == [p \in Pixels(width, height) |-> 0]

\* A variant that leaves out the far corner, as a slice mask[y1:y2, x1:x2].
rectangle_half_open(px, width, height, region) ==
    [p \in Pixels(width, height) |->
        IF /\ region[1] <= p[2] /\ p[2] < region[3]
           /\ region[2] <= p[1] /\ p[1] < region[4]
        THEN White ELSE px[p]]

\* cv2.rectangle(mask, (x1, y1), (x2, y2), 255, -1): the filled rectangle
\* spanned by the two corners, both included, clipped to the array.
rectangle(px, width, height, region) ==
    [p \in Pixels(width, height) |->
        IF /\ Min(region[1], region[3]) <= p[2]
           /\ p[2] <= Max(region[1], region[3])
           /\ Min(region[2], region[4]) <= p[1]
           /\ p[1] <= Max(region[2], region[4])
        THEN White ELSE px[p]]

\* The integer nearest to the square root of n (no n has a root at d + 1/2).
RoundSqrt(n) ==
    CHOOSE d \in 0..(n + 1) :
        /\ 4 * n < (2 * d + 1) * (2 * d + 1)
        /\ d = 0 \/ (2 * d - 1) * (2 * d - 1) <= 4 * n

\* cv2.getStructuringElement(cv2.MORPH_ELLIPSE, (k, k)), as the offsets
\* <<dy, dx>> from the anchor at the centre: with r = k / 2, row dy holds the
\* columns |dx| <= round(sqrt(r * r - dy * dy)).
getStructuringElement(k) ==
    LET r == k \div 2 IN
    { o \in (-r..r) \X (-r..r) :
        AbsDiff(o[2], 0) <= RoundSqrt(r * r - o[1] * o[1]) }

DilationKernel == getStructuringElement(MASK_DILATION_KERNEL)
RefineKernel == getStructuringElement(REFINE_KERNEL)

InFrame(width, height, r, c) ==
    0 <= r /\ r < height /\ 0 <= c /\ c < width

\* The values of the mask under the kernel anchored at p; pixels outside the
\* array take no part (the default border of the morphology operations).
Under(px, width, height, kernel, p) ==
    { px[<<p[1] + o[1], p[2] + o[2]>>] :
        o \in { o \in kernel : InFrame(width, height, p[1] + o[1], p[2] + o[2]) } }

MaxOf(S) == CHOOSE m \in S : \A x \in S : x <= m
MinOf(S) == CHOOSE m \in S : \A x \in S : m <= x

\* cv2.dilate(mask, kernel, iterations=1), cv2.erode likewise
dilate(px, width, height, kernel) ==
    [p \in Pixels(width, height) |-> MaxOf(Under(px, width, height, kernel, p))]
erode(px, width, height, kernel) ==
    [p \in Pixels(width, height) |-> MinOf(Under(px, width, height, kernel, p))]

\* BORDER_REFLECT_101, the default border of GaussianBlur: index i of an
\* axis of length n, reflected about the first and the last element.
RECURSIVE reflect101(_, _)
reflect101(i, n) ==
    IF n = 1 THEN 0
    ELSE IF i < 0 THEN reflect101(-i, n)
    ELSE IF i >= n THEN reflect101(2 * n - 2 - i, n)
    ELSE i

\* The horizontal pass of the 5-tap kernel [1, 4, 6, 4, 1] / 16 (sigma 0
\* with size 5), in sixteenths.
blur_row(px, width, r, c) ==
      px[<<r, reflect101(c - 2, width)>>]
    + 4 * px[<<r, reflect101(c - 1, width)>>]
    + 6 * px[<<r, c>>]
    + 4 * px[<<r, reflect101(c + 1, width)>>]
    + px[<<r, reflect101(c + 2, width)>>]

\* cv2.GaussianBlur(mask, (5, 5), 0) on 8-bit pixels: both passes, then the
\* sum of 256ths rounded to the nearest integer (one half rounds up, as in
\* the fixed-point filter; no property below depends on how a tie rounds).
GaussianBlur(px, width, height) ==
    [p \in Pixels(width, height) |->
        ( blur_row(px, width, reflect101(p[1] - 2, height), p[2])
        + 4 * blur_row(px, width, reflect101(p[1] - 1, height), p[2])
        + 6 * blur_row(px, width, p[1], p[2])
        + 4 * blur_row(px, width, reflect101(p[1] + 1, height), p[2])
        + blur_row(px, width, reflect101(p[1] + 2, height), p[2])
        + 128 ) \div 256]

\* refine_mask: morphologyEx MORPH_CLOSE (iterations dilations, then as many
\* erosions), then MORPH_OPEN (erosions, then dilations), kernel by kernel.
Rep(x, n) == [k \in 1..n |-> x]

\* A variant of the refinement that only dilates.
RefineStepsDilateOnly == Rep("dilate", 4 * REFINE_ITERATIONS)

RefineSteps ==
    Rep("dilate", REFINE_ITERATIONS) \o Rep("erode", REFINE_ITERATIONS)
        \o Rep("erode", REFINE_ITERATIONS) \o Rep("dilate", REFINE_ITERATIONS)

\* get_mask_statistics: mask.size, np.count_nonzero(mask) and
\* (masked_pixels / total_pixels) * 100, kept as the fraction
\* <<numerator, denominator>>; the division raises for an array of no pixels.
get_mask_statistics(px, width, height) ==
    LET total_pixels == width * height
        masked_pixels == Cardinality({ p \in DOMAIN px : px[p] # 0 })
    IN  IF total_pixels = 0 THEN [ exc |-> "ZeroDivisionError" ]
        ELSE [ exc |-> None, total_pixels |-> total_pixels,
               masked_pixels |-> masked_pixels,
               coverage_percentage |-> <<masked_pixels * 100, total_pixels>> ]

\* ----------------------------------------------------- SpecMask
\* config.GARMENT_TYPES
GARMENT_TYPES ==
    { "shirt", "t-shirt", "blouse", "dress", "jacket", "coat", "sweater",
      "hoodie", "pants", "jeans", "skirt", "shoes", "hat", "cap", "glasses",
      "sunglasses", "scarf", "tie" }

\* The categories of the region table of create_garment_region_mask.
RegionTable ==
    { "hat", "glasses", "shirt", "t-shirt", "blouse", "dress", "jacket",
      "pants", "jeans", "skirt", "shoes", "scarf" }

\* The keys of garment_prompts in _generate_prompt.
PromptTable ==
    { "hat", "cap", "glasses", "sunglasses", "shirt", "t-shirt", "blouse",
      "dress", "jacket", "coat", "sweater", "hoodie", "pants", "jeans",
      "skirt", "shoes", "scarf", "tie" }

MaskW == 4           \* widths 1..MaskW of the small images
MaskH == 8           \* heights 1..MaskH of the small images
StripW == 2          \* widths 1..StripW of the images of height HatHeight
HatHeight == 512     \* the height of the 512 x 512 test image

\* Category strings given to the masker: the supported ones, another letter
\* case, and strings that are no category.
MaskTypes == GARMENT_TYPES \cup { "Hat", "poncho", "Poncho", "" }

\* <<width, height, category>> of the calls of create_garment_region_mask:
\* every small size with every category string, one larger size with some
\* of them, strips of the test image's height for "hat" (its rectangle
\* spans every column, so the rows of the mask are the same at every
\* width), and a height at which int(height * 0.35) is below the exact
\* product.
MaskInputs ==
    ((1..MaskW) \X (1..MaskH) \X MaskTypes)
        \cup ({12} \X {40} \X {"shirt", "glasses", "scarf", "shoes", "coat", "Poncho"})
        \cup ((1..StripW) \X {HatHeight} \X {"hat"})
        \cup ({2} \X {180} \X {"scarf"})

\* Arrays handed to get_mask_statistics directly: <<width, height, pixels>>,
\* arrays of no pixels included (np.zeros((0, 0)), np.zeros((0, 2)), ...).
GivenShapes == { <<0, 0>>, <<2, 0>>, <<0, 2>>, <<1, 1>>, <<2, 2>> }
GivenMasks ==
    UNION { { <<s[1], s[2], px>> : px \in [Pixels(s[1], s[2]) -> {0, 128, White}] } :
              s \in GivenShapes }

orchestrator ==
    <<self, cudaCached, heap, orig, op, bpc, batch, gpc, frame, log>>

\* The orchestrator with no call under way.
Quiet ==
    /\ self = NewPipeline("cpu")
    /\ cudaCached = 0
    /\ heap = [id \in ImgIds |-> <<512, 512>>]
    /\ orig = heap
    /\ op = "idle"
    /\ bpc = "idle"
    /\ batch = NoBatch
    /\ gpc = "none"
    /\ frame = NoFrame
    /\ log = <<>>

InitMask ==
    /\ Quiet
    /\ rz = NoResize /\ pr = NoPrompt /\ cd = NoCodec /\ srv = NoServer
    /\ \/ \E i \in MaskInputs :
             mk = [NoMask EXCEPT !.pc = "zeros", !.width = i[1],
                                 !.height = i[2], !.garment_type = i[3]]
       \/ \E g \in GivenMasks :
             mk = [NoMask EXCEPT !.pc = "given", !.width = g[1],
                                 !.height = g[2], !.px = g[3]]

\* create_garment_region_mask, lines 68-89: the empty mask and the region
MaskRegion ==
    /\ mk.pc = "zeros"
    /\ mk' = [mk EXCEPT !.pc = "rectangle",
                        !.px = zeros(mk.width, mk.height),
                        !.region = garment_region(mk.width, mk.height,
                                                  mk.garment_type)]
    /\ UNCHANGED <<orchestrator, rz, pr, cd, srv>>

\* line 92: cv2.rectangle(mask, (x1, y1), (x2, y2), 255, -1)
MaskRectangle ==
    /\ mk.pc = "rectangle"
    /\ mk' = [mk EXCEPT !.pc = "dilate",
                        !.px = rectangle(mk.px, mk.width, mk.height, mk.region)]
    /\ UNCHANGED <<orchestrator, rz, pr, cd, srv>>

\* lines 95-98: dilation by the elliptic kernel
MaskDilate ==
    /\ mk.pc = "dilate"
    /\ mk' = [mk EXCEPT !.pc = "blur",
                        !.px = dilate(mk.px, mk.width, mk.height, DilationKernel)]
    /\ UNCHANGED <<orchestrator, rz, pr, cd, srv>>

\* lines 101-104: the blur; the mask is returned
MaskBlur ==
    /\ mk.pc = "blur"
    /\ mk' = [mk EXCEPT !.pc = "created",
                        !.px = GaussianBlur(mk.px, mk.width, mk.height)]
    /\ UNCHANGED <<orchestrator, rz, pr, cd, srv>>

\* refine_mask on the created mask, one morphology pass at a time
RefineStep ==
    /\ mk.pc \in {"created", "refine"}
    /\ LET k == mk.k + 1
           out == IF RefineSteps[k] = "dilate"
                  THEN dilate(mk.px, mk.width, mk.height, RefineKernel)
                  ELSE erode(mk.px, mk.width, mk.height, RefineKernel)
       IN  mk' = [mk EXCEPT !.pc = IF k = Len(RefineSteps) THEN "refined"
                                   ELSE "refine",
                            !.k = k, !.px = out]
    /\ UNCHANGED <<orchestrator, rz, pr, cd, srv>>

\* get_mask_statistics on a created, a refined or a given mask
Statistics ==
    /\ mk.pc \in {"created", "refined", "given"}
    /\ LET st == get_mask_statistics(mk.px, mk.width, mk.height)
       IN  mk' = [mk EXCEPT !.pc = "stats", !.stats = <<st>>, !.exc = st.exc]
    /\ UNCHANGED <<orchestrator, rz, pr, cd, srv>>

NextMask ==
    \/ MaskRegion
    \/ MaskRectangle
    \/ MaskDilate
    \/ MaskBlur
    \/ RefineStep
    \/ Statistics

SpecMask == InitMask /\ [][NextMask]_vars

\* ----------------------------------------------------- SpecPrompt
\* Category strings given to _generate_prompt: the keys of its table, other
\* letter cases of them, and strings that are no key.
PromptTypes ==
    GARMENT_TYPES \cup { "Hat", "HAT", "T-Shirt", "poncho", "Poncho", "",
                         "a hat, nude" }

\* Values of the base_prompt argument: the one generate_try_on passes
\* (line 113) and others.
BasePrompts ==
    { "person wearing high-quality clothing", "", "an astronaut",
      "A person wearing a stylish hat" }

InitPrompt ==
    /\ Quiet
    /\ rz = NoResize /\ mk = NoMask /\ cd = NoCodec /\ srv = NoServer
    /\ \E t \in PromptTypes, b \in BasePrompts :
          pr = [NoPrompt EXCEPT !.pc = "call", !.garment_type = t,
                                !.base_prompt = b]

\* prompt = self._generate_prompt(garment_type, base_prompt)
BuildPrompt ==
    /\ pr.pc = "call"
    /\ pr' = [pr EXCEPT !.pc = "built",
                        !.prompt = _generate_prompt(pr.garment_type,
                                                    pr.base_prompt)]
    /\ UNCHANGED <<orchestrator, rz, mk, cd, srv>>

NextPrompt == BuildPrompt

SpecPrompt == InitPrompt /\ [][NextPrompt]_vars

\* ----------------------------------------------------- SpecCodec
\* image_to_base64 and base64_to_image on the bytes that carry the size: the
\* PNG signature and the IHDR chunk up to its data (the chunk's CRC and the
\* chunks after it hold no dimension and are left out), and base64 on
\* those bytes, character by character.
PNG_SIGNATURE == <<137, 80, 78, 71, 13, 10, 26, 10>>
IHDR_TYPE == <<73, 72, 68, 82>>          \* "IHDR"
IHDR_LENGTH == 13
BIT_DEPTH == 8
MAX_IMAGE_PIXELS == 89478485             \* PIL.Image.MAX_IMAGE_PIXELS

\* A variant that reads the two low bytes only.
i32_low_bytes(b) ==
    256 * b[3] + b[4]

\* o32 / i32 of PngImagePlugin: an integer as four bytes, most significant
\* first, and back.
o32(n) ==
    << (n \div 16777216) % 256, (n \div 65536) % 256, (n \div 256) % 256,
       n % 256 >>
i32(b) ==
    16777216 * b[1] + 65536 * b[2] + 256 * b[3] + b[4]

\* PNG colour type of the image modes the program encodes: the result image
\* is "RGB", the mask image "L".
color_type(mode) == IF mode = "RGB" THEN 2 ELSE 0

\* image.save(buffer, format="PNG"), up to the IHDR data
png_header(size, mode) ==
    PNG_SIGNATURE \o o32(IHDR_LENGTH) \o IHDR_TYPE \o o32(size[1])
        \o o32(size[2]) \o <<BIT_DEPTH, color_type(mode), 0, 0, 0>>

B64_ALPHABET ==
    << "A", "B", "C", "D", "E", "F", "G", "H", "I", "J", "K", "L", "M",
       "N", "O", "P", "Q", "R", "S", "T", "U", "V", "W", "X", "Y", "Z",
       "a", "b", "c", "d", "e", "f", "g", "h", "i", "j", "k", "l", "m",
       "n", "o", "p", "q", "r", "s", "t", "u", "v", "w", "x", "y", "z",
       "0", "1", "2", "3", "4", "5", "6", "7", "8", "9", "+", "/" >>
B64_PAD == "="

\* The base64 characters of one group of one, two or three bytes.
b64_group(g) ==
    LET b1 == g[1]
        b2 == IF Len(g) >= 2 THEN g[2] ELSE 0
        b3 == IF Len(g) >= 3 THEN g[3] ELSE 0
        c1 == B64_ALPHABET[(b1 \div 4) + 1]
        c2 == B64_ALPHABET[((b1 % 4) * 16 + b2 \div 16) + 1]
        c3 == B64_ALPHABET[((b2 % 16) * 4 + b3 \div 64) + 1]
        c4 == B64_ALPHABET[(b3 % 64) + 1]
    IN  IF Len(g) = 1 THEN <<c1, c2, B64_PAD, B64_PAD>>
        ELSE IF Len(g) = 2 THEN <<c1, c2, c3, B64_PAD>>
        ELSE <<c1, c2, c3, c4>>

\* base64.b64encode(data).decode(): the characters of the text
RECURSIVE b64encode(_)
b64encode(data) ==
    IF data = <<>> THEN <<>>
    ELSE LET n == Min(3, Len(data))
         IN  b64_group(SubSeq(data, 1, n))
                 \o b64encode(SubSeq(data, n + 1, Len(data)))

B64Index(c) == (CHOOSE i \in 1..64 : B64_ALPHABET[i] = c) - 1

\* The bytes of one group of four base64 characters.
b64_ungroup(q) ==
    LET s1 == B64Index(q[1])
        s2 == B64Index(q[2])
        s3 == IF q[3] = B64_PAD THEN 0 ELSE B64Index(q[3])
        s4 == IF q[4] = B64_PAD THEN 0 ELSE B64Index(q[4])
        b1 == s1 * 4 + s2 \div 16
        b2 == (s2 % 16) * 16 + s3 \div 4
        b3 == (s3 % 4) * 64 + s4
    IN  IF q[3] = B64_PAD THEN <<b1>>
        ELSE IF q[4] = B64_PAD THEN <<b1, b2>>
        ELSE <<b1, b2, b3>>

\* base64.b64decode(base64_string)
RECURSIVE b64decode(_)
b64decode(text) ==
    IF Len(text) < 4 THEN <<>>
    ELSE b64_ungroup(SubSeq(text, 1, 4))
             \o b64decode(SubSeq(text, 5, Len(text)))

\* Image._decompression_bomb_check, run by Image.open on the size read
\* from the file: more than twice MAX_IMAGE_PIXELS raises
\* DecompressionBombError (above MAX_IMAGE_PIXELS it only warns).
decompression_bomb(size) ==
    Max(1, size[1]) * Max(1, size[2]) > 2 * MAX_IMAGE_PIXELS

\* image_to_base64 (lines 139-144)
image_to_base64(size, mode) == b64encode(png_header(size, mode))

\* base64_to_image (lines 157-160): the size of the opened image, converted
\* to "RGB" (convert keeps the size), or the exception Image.open raises.
base64_to_image(text) ==
    LET data == b64decode(text)
        ok == /\ Len(data) >= 24
              /\ SubSeq(data, 1, 8) = PNG_SIGNATURE
              /\ SubSeq(data, 13, 16) = IHDR_TYPE
        size == <<i32(SubSeq(data, 17, 20)), i32(SubSeq(data, 21, 24))>>
    IN  IF ~ok THEN [ exc |-> "UnidentifiedImageError", size |-> <<>> ]
        ELSE IF decompression_bomb(size)
        THEN [ exc |-> "DecompressionBombError", size |-> <<>> ]
        ELSE [ exc |-> None, size |-> <<size>> ]

CodecMax == 4        \* widths and heights 1..CodecMax of the small images

\* Sizes of the images encoded: the small ones, sizes around the byte
\* boundaries of the 32-bit fields, the sizes the pipeline works with, and
\* sizes around twice MAX_IMAGE_PIXELS.
CodecSizes ==
    ((1..CodecMax) \X (1..CodecMax))
        \cup { <<255, 257>>, <<256, 256>>, <<512, 512>>, <<768, 1024>>,
               <<65535, 2>>, <<3, 65536>>, <<16777216, 1>>,
               <<13377, 13377>>, <<13377, 13378>>, <<20000, 10000>>,
               <<1, 178956970>>, <<178956971, 1>> }

InitCodec ==
    /\ Quiet
    /\ rz = NoResize /\ mk = NoMask /\ pr = NoPrompt /\ srv = NoServer
    /\ \E s \in CodecSizes, m \in {"RGB", "L"} :
          cd = [NoCodec EXCEPT !.pc = "image", !.size = s, !.mode = m]

\* base64_str = processor.image_to_base64(image)
Encode ==
    /\ cd.pc = "image"
    /\ cd' = [cd EXCEPT !.pc = "encoded",
                        !.text = image_to_base64(cd.size, cd.mode)]
    /\ UNCHANGED <<orchestrator, rz, mk, pr, srv>>

\* recovered = processor.base64_to_image(base64_str)
Decode ==
    /\ cd.pc = "encoded"
    /\ LET im == base64_to_image(cd.text)
       IN  cd' = [cd EXCEPT !.pc = "decoded", !.decoded = im.size,
                            !.exc = im.exc]
    /\ UNCHANGED <<orchestrator, rz, mk, pr, srv>>

NextCodec ==
    \/ Encode
    \/ Decode

SpecCodec == InitCodec /\ [][NextCodec]_vars

\* ----------------------------------------------------- SpecServer
\* The API process: one asyncio event loop (uvicorn.run(app, ...) of
\* main.py) that runs the coroutines of the request handlers, one at a time,
\* each until it awaits or returns. srv.loop is the request whose coroutine
\* the loop is running (0: none), srv.pipeline the number of
\* InferencePipeline objects made by get_pipeline, srv.instance the object
\* in the global _pipeline_instance (0: None; the k-th object made is k),
\* srv.got[t] the object get_pipeline returned to request t (0: none yet),
\* srv.failed the requests whose get_pipeline raised, srv.inferring the
\* requests inside pipeline.generate_try_on, srv.clearing those inside
\* pipeline.clear_cache.
MaxRequests == 3     \* requests that arrive at the API

Requests == 1..MaxRequests
TryOnHandlers == { "virtual_tryon", "virtual_tryon_upload" }
Handlers == TryOnHandlers \cup { "clear_cache", "classify_garment" }

\* Variants in which a handler is a plain "def", which FastAPI runs in a
\* worker thread.
runs_on_event_loop_clear_cache_only(handler) == handler = "clear_cache"
runs_on_event_loop_try_on_only(handler) == handler \in TryOnHandlers
runs_on_event_loop_never(handler) == FALSE

\* The handlers are "async def" (api.py lines 81, 121, 180): FastAPI runs
\* them as coroutines on the event loop.
runs_on_event_loop(handler) == TRUE

OnLoop(t) == runs_on_event_loop(srv.handler[t])
\* the loop is free to start or resume the coroutine of t
CanStart(t) == OnLoop(t) => srv.loop = 0
\* t's code is running: on the loop it is the loop's current coroutine
Running(t) == OnLoop(t) => srv.loop = t
Take(t) == IF OnLoop(t) THEN t ELSE srv.loop
Release(t) == IF OnLoop(t) THEN 0 ELSE srv.loop

InitServer ==
    /\ Quiet
    /\ rz = NoResize /\ mk = NoMask /\ pr = NoPrompt /\ cd = NoCodec
    /\ srv = [ loop |-> 0, pc |-> [t \in Requests |-> "none"],
               handler |-> [t \in Requests |-> None], pipeline |-> 0,
               instance |-> 0, got |-> [t \in Requests |-> 0],
               failed |-> {}, inferring |-> {}, clearing |-> {} ]

\* A request for one of the routes arrives; its handler is scheduled.
Arrive(t) ==
    /\ srv.pc[t] = "none"
    /\ \E h \in Handlers :
          srv' = [srv EXCEPT !.pc[t] = "pending", !.handler[t] = h]
    /\ UNCHANGED <<orchestrator, rz, mk, pr, cd>>

\* The handler starts and calls get_pipeline() (lines 61, 92, 141, 183).
StartHandler(t) ==
    /\ srv.pc[t] = "pending"
    /\ CanStart(t)
    /\ srv' = [srv EXCEPT !.loop = Take(t), !.pc[t] = "get_pipeline"]
    /\ UNCHANGED <<orchestrator, rz, mk, pr, cd>>

\* The handler's statement after "pipeline = get_pipeline()".
after_get_pipeline(handler) ==
    CASE handler = "virtual_tryon" -> "generate"
      [] handler = "virtual_tryon_upload" -> "read_person"
      [] handler = "classify_garment" -> "classify"
      [] OTHER -> "clear_cache"

\* get_pipeline, "if _pipeline_instance is None:" (line 227): with an
\* instance in the global the call returns it (line 229), without one it
\* goes on to make one.
GetPipeline(t) ==
    /\ srv.pc[t] = "get_pipeline"
    /\ Running(t)
    /\ IF srv.instance = 0
       THEN srv' = [srv EXCEPT !.pc[t] = "construct"]
       ELSE srv' = [srv EXCEPT !.got[t] = srv.instance,
                               !.pc[t] = after_get_pipeline(srv.handler[t])]
    /\ UNCHANGED <<orchestrator, rz, mk, pr, cd>>

\* "_pipeline_instance = InferencePipeline()" (line 228): the constructor
\* returns a new object, which is stored in the global and returned, or it
\* raises (the model cannot be loaded, __init__ lines 41-46): nothing is
\* assigned and the exception reaches the handler's "except".
Construct(t) ==
    /\ srv.pc[t] = "construct"
    /\ Running(t)
    /\ \/ srv' = [srv EXCEPT !.pipeline = @ + 1,
                             !.instance = srv.pipeline + 1,
                             !.got[t] = srv.pipeline + 1,
                             !.pc[t] = after_get_pipeline(srv.handler[t])]
       \/ srv' = [srv EXCEPT !.failed = @ \cup {t}, !.pc[t] = "respond"]
    /\ UNCHANGED <<orchestrator, rz, mk, pr, cd>>

\* "await person_image.read()", "await garment_image.read()" (lines 144-145):
\* the read completes at once, or the coroutine is suspended and the loop is
\* free for other requests.
AwaitRead(t) ==
    /\ srv.pc[t] \in {"read_person", "read_garment"}
    /\ Running(t)
    /\ \/ srv' = [srv EXCEPT !.pc[t] = IF @ = "read_person"
                                        THEN "read_garment" ELSE "generate"]
       \/ srv' = [srv EXCEPT !.pc[t] = IF @ = "read_person"
                                        THEN "person_pending"
                                        ELSE "garment_pending",
                             !.loop = Release(t)]
    /\ UNCHANGED <<orchestrator, rz, mk, pr, cd>>

\* The read is done and the loop resumes the coroutine.
Resume(t) ==
    /\ srv.pc[t] \in {"person_pending", "garment_pending"}
    /\ CanStart(t)
    /\ srv' = [srv EXCEPT !.pc[t] = IF @ = "person_pending"
                                     THEN "read_garment" ELSE "generate",
                          !.loop = Take(t)]
    /\ UNCHANGED <<orchestrator, rz, mk, pr, cd>>

\* result = pipeline.generate_try_on(...) is called (lines 98, 152): a plain
\* call, the inference runs inside the handler.
BeginInference(t) ==
    /\ srv.pc[t] = "generate"
    /\ Running(t)
    /\ srv' = [srv EXCEPT !.pc[t] = "inferring", !.inferring = @ \cup {t}]
    /\ UNCHANGED <<orchestrator, rz, mk, pr, cd>>

\* generate_try_on returns or raises.
EndInference(t) ==
    /\ srv.pc[t] = "inferring"
    /\ Running(t)
    /\ srv' = [srv EXCEPT !.pc[t] = "respond", !.inferring = @ \ {t}]
    /\ UNCHANGED <<orchestrator, rz, mk, pr, cd>>

\* pipeline.clear_cache() is called (line 184)
BeginClearCache(t) ==
    /\ srv.pc[t] = "clear_cache"
    /\ Running(t)
    /\ srv' = [srv EXCEPT !.pc[t] = "clearing", !.clearing = @ \cup {t}]
    /\ UNCHANGED <<orchestrator, rz, mk, pr, cd>>

\* clear_cache returns.
EndClearCache(t) ==
    /\ srv.pc[t] = "clearing"
    /\ Running(t)
    /\ srv' = [srv EXCEPT !.pc[t] = "respond", !.clearing = @ \ {t}]
    /\ UNCHANGED <<orchestrator, rz, mk, pr, cd>>

\* result = pipeline.classify_garment(image) (line 67), a plain call.
ClassifyGarment(t) ==
    /\ srv.pc[t] = "classify"
    /\ Running(t)
    /\ srv' = [srv EXCEPT !.pc[t] = "respond"]
    /\ UNCHANGED <<orchestrator, rz, mk, pr, cd>>

\* The handler returns its response or raises HTTPException.
Respond(t) ==
    /\ srv.pc[t] = "respond"
    /\ Running(t)
    /\ srv' = [srv EXCEPT !.pc[t] = "done", !.loop = Release(t)]
    /\ UNCHANGED <<orchestrator, rz, mk, pr, cd>>

NextServer ==
    \E t \in Requests :
        \/ Arrive(t)
        \/ StartHandler(t)
        \/ GetPipeline(t)
        \/ Construct(t)
        \/ AwaitRead(t)
        \/ Resume(t)
        \/ BeginInference(t)
        \/ EndInference(t)
        \/ BeginClearCache(t)
        \/ EndClearCache(t)
        \/ ClassifyGarment(t)
        \/ Respond(t)

SpecServer == InitServer /\ [][NextServer]_vars

\* ----------------------------------------------------- SpecRefine
\* refine_mask(mask, iterations) applied again and again to a mask that is
\* one solid rectangle.
RefineW == 5         \* width of the masks refined repeatedly
RefineH == 4         \* height of the masks refined repeatedly
MaxRounds == 3       \* applications of refine_mask to one mask

\* A variant whose closing dilates and does not erode.
refine_passes_no_closing_erosion(iterations) ==
    Rep("dilate", iterations) \o Rep("erode", iterations)
        \o Rep("dilate", iterations)

\* The passes of one refine_mask call (lines 121 and 124): MORPH_CLOSE is
\* iterations dilations followed by as many erosions, MORPH_OPEN the
\* erosions followed by the dilations.
refine_passes(iterations) ==
    Rep("dilate", iterations) \o Rep("erode", iterations)
        \o Rep("erode", iterations) \o Rep("dilate", iterations)

\* <<width, height, rectangle>> of the solid-rectangle masks: every rectangle
\* of the small frame, and rectangles of a frame wider than the kernels'
\* reach (inside it, on its border, one pixel, the whole frame).
RefineInputs ==
    { <<RefineW, RefineH, <<x1, y1, x2, y2>>>> :
        x1 \in 0..(RefineW - 1), x2 \in 0..(RefineW - 1),
        y1 \in 0..(RefineH - 1), y2 \in 0..(RefineH - 1) }
      \cup ({13} \X {13} \X { <<4, 4, 8, 8>>, <<6, 6, 6, 6>>, <<0, 0, 12, 12>>,
                               <<2, 5, 10, 7>>, <<0, 3, 5, 9>>, <<1, 1, 11, 3>> })

InitRefine ==
    /\ Quiet
    /\ rz = NoResize /\ pr = NoPrompt /\ cd = NoCodec /\ srv = NoServer
    /\ \E i \in RefineInputs, n \in {1, REFINE_ITERATIONS} :
          /\ i[3][1] <= i[3][3] /\ i[3][2] <= i[3][4]
          /\ mk = [ pc |-> "refine", width |-> i[1], height |-> i[2],
                    iterations |-> n,
                    input |-> rectangle(zeros(i[1], i[2]), i[1], i[2], i[3]),
                    px |-> rectangle(zeros(i[1], i[2]), i[1], i[2], i[3]),
                    passes |-> <<>>, after |-> <<>> ]

\* One pass of the current refine_mask call; after its last pass the call
\* returns the mask.
RefinePass ==
    /\ mk.pc = "refine"
    /\ LET steps == refine_passes(mk.iterations)
           k == Len(mk.passes) + 1
           out == IF steps[k] = "dilate"
                  THEN dilate(mk.px, mk.width, mk.height, RefineKernel)
                  ELSE erode(mk.px, mk.width, mk.height, RefineKernel)
       IN  IF k < Len(steps)
           THEN mk' = [mk EXCEPT !.px = out, !.passes = Append(@, steps[k])]
           ELSE mk' = [mk EXCEPT !.px = out, !.passes = Append(@, steps[k]),
                                 !.after = Append(@, out), !.pc = "returned"]
    /\ UNCHANGED <<orchestrator, rz, pr, cd, srv>>

\* refine_mask is called again on the mask it returned.
RefineAgain ==
    /\ mk.pc = "returned"
    /\ Len(mk.after) < MaxRounds
    /\ mk' = [mk EXCEPT !.pc = "refine", !.passes = <<>>]
    /\ UNCHANGED <<orchestrator, rz, pr, cd, srv>>

NextRefine ==
    \/ RefinePass
    \/ RefineAgain

SpecRefine == InitRefine /\ [][NextRefine]_vars

\* ======================================================== the claims
Range(q) == { q[k] : k \in 1..Len(q) }
IsPrefix(p, q) == Len(p) <= Len(q) /\ \A k \in 1..Len(p) : p[k] = q[k]
SelectStages(q, keepClassify) ==
    SelectSeq(q, LAMBDA st : keepClassify \/ st # "classify")

\* The stages a call runs when nothing fails: all of StageOrder, without
\* the classifier when the caller gave a category.
ExpectedStages == SelectStages(StageOrder, frame.arg_type = None)

\* The images of the current call had positive width and height.
PositiveImages == \A id \in ImgIds : ~ZeroArea(orig[id])

\* C1, as stated: a returned result (for images of positive size) has
\* confidence 1.0 if and only if the caller supplied a category. (The
\* classifier may answer 1.0 itself.)
C1_ConfidenceOneIffSupplied ==
    (gpc = "returned" /\ PositiveImages) =>
        ((frame.result[1].confidence = ConfOne) <=> (frame.arg_type # None))

\* C1, amended: in a returned result the confidence is 1.0 whenever the
\* caller supplied a category, and the classifier was not invoked; when none
\* was supplied the classifier was invoked once and the confidence is the
\* value it returned, whatever that value is.
C1_ConfidenceBySource ==
    gpc = "returned" =>
        IF frame.arg_type # None
        THEN /\ frame.result[1].confidence = ConfOne
             /\ "classify" \notin Range(log)
             /\ frame.classification = <<>>
        ELSE /\ "classify" \in Range(log)
             /\ frame.classification # <<>>
             /\ frame.result[1].confidence = frame.classification[1].confidence

\* C1: a result for a call without category whose confidence is 1.0.
C1_Witness ==
    /\ gpc = "returned"
    /\ PositiveImages
    /\ frame.arg_type = None
    /\ frame.result[1].confidence = ConfOne

\* C4: a call that fails at some stage has run the stages before it once
\* each, in order, runs no stage after the failed one, does not run the
\* failed stage again, and raises without a result record.
C4_FailureAborts ==
    /\ IsPrefix(log, ExpectedStages)
    /\ gpc = "raised" =>
          /\ log # <<>>
          /\ frame.exc = log[Len(log)]
          /\ frame.result = <<>>

\* C4: a call whose generation stage failed after the mask was refined.
C4_Witness ==
    /\ gpc = "raised"
    /\ frame.exc = "pipeline"
    /\ frame.mask_image # <<>>
    /\ Len(log) = Len(StageOrder)

\* C5, as stated: with no category supplied and an invalid answer of the
\* classifier (on images of positive size), the request fails: mask creation
\* is not entered with that answer and no TryOnResult is returned.
C5_InvalidClassificationFails ==
    (PositiveImages /\ frame.classification # <<>>
        /\ ~ValidClassification(frame.classification[1])) =>
        /\ "create_garment_region_mask" \notin Range(log)
        /\ gpc # "returned"

\* C7, as stated: with a zero-dimension person or garment image no stage of
\* generate_try_on is entered.
C7_ZeroDimensionRejected ==
    (gpc # "none"
        /\ (ZeroArea(orig[frame.person]) \/ ZeroArea(orig[frame.garment]))) =>
        log = <<>>

\* C8, as stated: when generate_try_on has returned or raised, the caller's
\* Image objects are as they were when it was called.
C8_CallerImagesUnchanged ==
    (bpc = "idle" /\ gpc \in {"returned", "raised"}) => heap = orig

\* C9: a clear_cache call between requests never fails, leaves every piece
\* of state as it was when the device is not "cuda", and a second call right
\* after it would change nothing (idempotent).
IsClearCacheStep == Idle /\ op' = "clear_cache"
C2_ItemFailureIsolated ==
    bpc # "raised"

\* C3, as stated: a finished batch_try_on call returned a list with one
\* entry per index-aligned item, entry i belonging to item i.
C3_OneEntryPerItem ==
    bpc \in {"returned", "raised"} =>
        /\ bpc = "returned"
        /\ Len(batch.results) = NumItems
        /\ \A k \in 1..NumItems :
              LET t == item_type(batch.types_given, batch.garment_types, k - 1)
                  r == batch.results[k]
              IN  \/ "error" \in DOMAIN r
                  \/ t = None
                  \/ r.garment_detected = t

\* C6, as stated: batch_try_on does not return normally for an empty batch.
C6_EmptyBatchRejected ==
    (bpc = "returned") =>
        ~(batch.person_images = <<>> /\ batch.garment_images = <<>>)

\* C10: after resize_image an image of positive size is within 768 x 1024,
\* no dimension grew, an image that fitted keeps its size, a resized image
\* has one dimension at the bound and the other within one pixel of the
\* exact proportional value, and resizing again changes nothing.
C10_ResizeWithinBound ==
    rz.stage \in {"once", "twice"} =>
        LET w == rz.input[1]
            h == rz.input[2]
            x == rz.once[1]
            y == rz.once[2]
        IN  /\ 1 <= x /\ x <= MAX_W /\ x <= w
            /\ 1 <= y /\ y <= MAX_H /\ y <= h
            /\ (w <= MAX_W /\ h <= MAX_H) => rz.once = rz.input
            /\ \/ rz.once = rz.input
               \/ y = MAX_H /\ AbsDiff(x * h, MAX_H * w) < h
               \/ x = MAX_W /\ AbsDiff(y * w, MAX_W * h) < w
            /\ rz.stage = "twice" => rz.twice = rz.once

\* C10: an image above the bound in both dimensions was resized twice.
C10_Witness ==
    /\ rz.stage = "twice"
    /\ rz.input[1] > MAX_W
    /\ rz.input[2] > MAX_H
    /\ rz.once # rz.input

\* ------------------------------------------------ claims on the masker
\* The rectangle of the mask's category has a pixel inside the array.
RegionMeetsFrame ==
    /\ Min(mk.region[1], mk.region[3]) <= mk.width - 1
    /\ Max(mk.region[1], mk.region[3]) >= 0
    /\ Min(mk.region[2], mk.region[4]) <= mk.height - 1
    /\ Max(mk.region[2], mk.region[4]) >= 0

\* C11: for every supported category and every image of width >= 1 and
\* height >= 1 the rectangle of the category intersects the frame (a pixel
\* is drawn), and the mask create_garment_region_mask returns has the shape
\* (height, width) of the image and at least one non-zero pixel.
C11_MaskShapeAndNonZero ==
    (mk.garment_type \in GARMENT_TYPES /\ mk.width >= 1 /\ mk.height >= 1) =>
        /\ mk.pc \in {"rectangle", "dilate", "blur", "created"} =>
              RegionMeetsFrame
        /\ mk.pc = "dilate" => \E p \in DOMAIN mk.px : mk.px[p] = White
        /\ mk.pc = "created" =>
              /\ DOMAIN mk.px = Pixels(mk.width, mk.height)
              /\ \E p \in DOMAIN mk.px : mk.px[p] # 0

\* C11: a mask was created for "scarf" at a height where the float product
\* of the table is below the exact one.
C11_Witness ==
    /\ mk.pc = "created"
    /\ mk.garment_type = "scarf"
    /\ mk.height = 180
    /\ mk.region[4] = 62

\* C12: for a string that is no garment category, in any letter case,
\* create_garment_region_mask does not fail, its rectangle is
\* (0, 0, width, height), and every pixel of the mask is set before the blur.
C12_UnknownCategoryFullFrame ==
    (lower(mk.garment_type) \notin GARMENT_TYPES
        /\ mk.pc \in {"rectangle", "dilate", "blur", "created"}) =>
        /\ mk.exc = None
        /\ mk.region = <<0, 0, mk.width, mk.height>>
        /\ mk.pc \in {"dilate", "blur"} =>
              \A p \in Pixels(mk.width, mk.height) : mk.px[p] = White

\* C12: the mask of a string that is no category, before the blur.
C12_Witness ==
    /\ mk.pc = "blur"
    /\ mk.garment_type = "Poncho"
    /\ mk.width = 12
    /\ mk.height = 40

\* The last row the hat's rectangle reaches once dilated and blurred: the
\* rectangle's last row, then half the dilation kernel, then half the blur.
HatBand ==
    (HatHeight * 15) \div 100 + MASK_DILATION_KERNEL \div 2
        + MASK_BLUR_SIZE \div 2

\* t occurs in s
Contains(s, t) ==
    \E i \in 1..(Len(s) - Len(t) + 1) : SubSeq(s, i, i + Len(t) - 1) = t

\* C15: for a person image of height 512 and category "hat", the refined
\* mask (the one given to the generator) is non-zero in the rows 0 up to 15%
\* of the height plus the reach of the dilation and of the blur, and zero in
\* every row below; the prompt of the category contains "wearing a stylish
\* hat".
C15_HatMaskTopBand ==
    (mk.pc = "refined" /\ mk.garment_type = "hat" /\ mk.height = HatHeight) =>
        /\ \A p \in DOMAIN mk.px : (mk.px[p] # 0) <=> (p[1] <= HatBand)
        /\ Contains(_generate_prompt(mk.garment_type,
                                     "person wearing high-quality clothing"),
                    "wearing a stylish hat")

\* C15: the refined hat mask of a 512-row image, non-zero in row 85 and
\* zero in row 86, full at the top.
C15_Witness ==
    /\ mk.pc = "refined"
    /\ mk.garment_type = "hat"
    /\ mk.height = HatHeight
    /\ mk.px[<<0, 0>>] = White
    /\ mk.px[<<85, 0>>] # 0
    /\ mk.px[<<86, 0>>] = 0

\* C16, as stated: get_mask_statistics returns for any mask, with
\* masked_pixels <= total_pixels, a coverage within [0, 100] that is 0
\* exactly when no pixel is non-zero, and the mask as it was.
C16_StatisticsTotal ==
    mk.pc = "stats" =>
        /\ mk.exc = None
        /\ mk.stats[1].masked_pixels <= mk.stats[1].total_pixels
        /\ 0 <= mk.stats[1].coverage_percentage[1]
        /\ mk.stats[1].coverage_percentage[1]
              <= 100 * mk.stats[1].coverage_percentage[2]
        /\ (mk.stats[1].coverage_percentage[1] = 0)
              <=> (\A p \in DOMAIN mk.px : mk.px[p] = 0)

\* ------------------------------------------------ claims on the prompt
\* C13: for a string that is no key of the prompt table the prompt contains
\* "wearing " followed by the string exactly as given (same characters, same
\* letter case); for a key of the table in any letter case it contains the
\* clause of the table and not the string as given.
C13_UnknownCategoryVerbatim ==
    pr.pc = "built" =>
        /\ lower(pr.garment_type) \notin GARMENT_TYPES =>
              Contains(pr.prompt, "A person wearing " \o pr.garment_type \o ",")
        /\ lower(pr.garment_type) \in GARMENT_TYPES =>
              Contains(pr.prompt, garment_detail(lower(pr.garment_type)))
        /\ pr.garment_type \in {"hat", "Hat", "HAT"} =>
              /\ Contains(pr.prompt, "A person wearing a stylish hat,")
              /\ ~Contains(pr.prompt, "wearing " \o pr.garment_type)
        /\ pr.garment_type \in {"t-shirt", "T-Shirt"} =>
              Contains(pr.prompt, "A person wearing a t-shirt,")

\* C13: a prompt built for a capitalised string that is no key.
C13_Witness ==
    /\ pr.pc = "built"
    /\ pr.garment_type = "Poncho"
    /\ Contains(pr.prompt, "A person wearing Poncho,")

PromptPrefix == "A person "
PromptSuffix ==
    ", photorealistic, high quality, professional photography, "
        \o "natural lighting, detailed fabric texture"

\* C14: for every category string and every base_prompt the prompt is
\* "A person " + clause + the fixed stylistic suffix; the base_prompt
\* argument has no part in it.
C14_PromptFixedFrame ==
    pr.pc = "built" =>
        /\ pr.prompt
              = PromptPrefix \o garment_detail(pr.garment_type) \o PromptSuffix
        /\ SubSeq(pr.prompt, 1, Len(PromptPrefix)) = PromptPrefix
        /\ SubSeq(pr.prompt, Len(pr.prompt) - Len(PromptSuffix) + 1,
                  Len(pr.prompt)) = PromptSuffix

\* C14: a prompt built with a base_prompt other than the orchestrator's.
C14_Witness ==
    /\ pr.pc = "built"
    /\ pr.base_prompt = "an astronaut"
    /\ pr.garment_type = "dress"
    /\ pr.prompt = "A person wearing a dress" \o PromptSuffix

StagePos(stage) == CHOOSE k \in 1..Len(StageOrder) : StageOrder[k] = stage

\* C18: in every run of generate_try_on the stages are entered in the one
\* order resize person, resize garment, classify, create mask, refine mask,
\* build prompt, generator, none twice and none revisited; classify is
\* there exactly when no category was supplied; the mask is made from the
\* resized person image; the generator is entered only with the mask
\* refined and the prompt built, and once; the result is packaged after it.
C18_StagesInFixedOrder ==
    /\ \A j, k \in 1..Len(log) :
          j < k => StagePos(log[j]) < StagePos(log[k])
    /\ "classify" \in Range(log) => frame.arg_type = None
    /\ ("create_garment_region_mask" \in Range(log) /\ frame.arg_type = None)
          => "classify" \in Range(log)
    /\ frame.mask # <<>> =>
          frame.mask[1].shape
              = <<heap[frame.person][2], heap[frame.person][1]>>
    /\ "pipeline" \in Range(log) =>
          /\ SubSeq(log, 1, Len(log) - 1)
                = SubSeq(ExpectedStages, 1, Len(ExpectedStages) - 1)
          /\ frame.mask # <<>> /\ frame.mask[1].refined
          /\ frame.mask_image = frame.mask
          /\ frame.prompt # <<>>
    /\ gpc = "returned" =>
          /\ log = ExpectedStages
          /\ frame.result # <<>>
          /\ frame.result[1].mask = frame.mask_image[1]

\* C18: a call without category on an image that had to be resized has
\* returned after all seven stages.
C18_Witness ==
    /\ gpc = "returned"
    /\ frame.arg_type = None
    /\ log = StageOrder
    /\ orig[PERSON] = <<1536, 2048>>
    /\ frame.mask[1].shape = <<MAX_H, MAX_W>>

\* ------------------------------------------------ claims on the server
\* C19: with several try-on requests at the API handlers, which share the
\* one pipeline instance, at most one request is inside generate_try_on at
\* any time, and it is the request the event loop is running.
C19_OneInferenceInFlight ==
    /\ srv.pipeline <= 1
    /\ Cardinality(srv.inferring) <= 1
    /\ \A t \in srv.inferring : srv.loop = t

\* C19: a try-on request is inferring while another has arrived and one
\* more is suspended in the reads of its upload.
C19_Witness ==
    \E t, u, v \in Requests :
        /\ srv.pc[t] = "inferring"
        /\ srv.pc[u] = "pending" /\ srv.handler[u] \in TryOnHandlers
        /\ srv.pc[v] = "garment_pending"

\* C20: no request is inside clear_cache while a request is inside
\* generate_try_on: clear_cache runs before the inference starts or after
\* it has finished.
C20_ClearCacheNotDuringInference ==
    /\ srv.inferring = {} \/ srv.clearing = {}
    /\ \A t \in Requests :
          srv.pc[t] = "clearing" =>
              \A u \in Requests : srv.pc[u] # "inferring"

\* C20: clear_cache runs while a try-on request is suspended before its
\* inference, and another try-on request has finished.
C20_Witness ==
    \E t, u, v \in Requests :
        /\ srv.pc[t] = "clearing"
        /\ srv.pc[u] \in {"person_pending", "garment_pending"}
        /\ srv.pc[v] = "done" /\ srv.handler[v] = "virtual_tryon"

\* ------------------------------------------- claims on the refinement
\* C21: refine_mask runs the closing (dilations, then erosions) before the
\* opening (erosions, then dilations), keeps the shape of the mask, and on a
\* solid-rectangle mask every application after the second returns the mask
\* the second one returned: refine(refine(refine(m))) = refine(refine(m)).
C21_RefineFixedPoint ==
    /\ IsPrefix(mk.passes,
                Rep("dilate", mk.iterations) \o Rep("erode", 2 * mk.iterations)
                    \o Rep("dilate", mk.iterations))
    /\ mk.pc = "returned" => Len(mk.passes) = 4 * mk.iterations
    /\ DOMAIN mk.px = Pixels(mk.width, mk.height)
    /\ \A r \in 1..Len(mk.after) :
          /\ DOMAIN mk.after[r] = DOMAIN mk.input
          /\ r >= 3 => mk.after[r] = mk.after[r - 1]

\* C21: a rectangle refined three times with two iterations, whose first
\* refinement changed it and left it non-empty.
C21_Witness ==
    /\ mk.pc = "returned"
    /\ Len(mk.after) = 3
    /\ mk.iterations = REFINE_ITERATIONS
    /\ mk.after[1] # mk.input
    /\ \E p \in DOMAIN mk.input : mk.after[1][p] = White

\* ------------------------------------------------ claims on the tables
\* C22, as stated: every label of config.GARMENT_TYPES is a key of the
\* prompt table and of the region table, so the mask of such a label is made
\* from its own rectangle and not from the full-frame fallback, and the two
\* tables hold the same keys.
C22_TablesCoverGarmentTypes ==
    (mk.pc \in {"rectangle", "dilate", "blur", "created"}
        /\ mk.garment_type \in GARMENT_TYPES) =>
        /\ mk.garment_type \in PromptTable
        /\ mk.garment_type \in RegionTable
        /\ mk.height >= 2 => mk.region # <<0, 0, mk.width, mk.height>>
        /\ RegionTable = PromptTable

\* ------------------------------------------------ claims on the result
\* C23: in every result generate_try_on returns, garment_detected is the
\* resolved category as it is (the caller's string when one was supplied,
\* else the classifier's label), the mask is the refined mask image that
\* was given to the generator, of the size of the person image as resized,
\* and confidence is the value resolved in the classify stage.
C23_ResultCarriesResolvedValues ==
    gpc = "returned" =>
        LET r == frame.result[1] IN
        /\ r.garment_detected
              = IF frame.arg_type # None THEN frame.arg_type
                ELSE frame.classification[1].garment_type
        /\ r.garment_detected = frame.garment_type
        /\ r.mask = frame.mask_image[1]
        /\ r.mask.refined
        /\ r.mask.shape = <<heap[frame.person][2], heap[frame.person][1]>>
        /\ PositiveImages => heap[frame.person] = resize_image(orig[frame.person])
        /\ r.confidence = frame.confidence[1]
        /\ r.confidence
              = IF frame.arg_type # None THEN ConfOne
                ELSE frame.classification[1].confidence

\* C23: a result for a capitalised category supplied by the caller, on a
\* person image that was resized.
C23_Witness ==
    /\ gpc = "returned"
    /\ frame.arg_type = "Hat"
    /\ frame.result[1].garment_detected = "Hat"
    /\ orig[PERSON] = <<1536, 2048>>
    /\ frame.result[1].mask.shape = <<MAX_H, MAX_W>>

\* ------------------------------------------- claims on the confidence
\* C25: whatever confidence the classifier returns, however low, the call
\* goes on from the classify stage to mask creation with the classifier's
\* label: once a classification is there, the call is at or past mask
\* creation, a failure is a failure of a later stage, and a returned result
\* carries the label and the confidence as the classifier gave them.
C25_ConfidenceNeverGates ==
    frame.classification # <<>> =>
        LET c == frame.classification[1] IN
        /\ gpc \in { "create_garment_region_mask", "refine_mask",
                     "_generate_prompt", "pipeline", "returned", "raised" }
        /\ frame.garment_type = c.garment_type
        /\ frame.confidence = <<c.confidence>>
        /\ gpc = "raised" =>
              /\ frame.exc \in Range(StageOrder)
              /\ StagePos(frame.exc) > StagePos("classify")
        /\ frame.mask # <<>> =>
              frame.mask[1].region
                  = garment_region(heap[frame.person][1],
                                   heap[frame.person][2], c.garment_type)
        /\ gpc = "returned" =>
              /\ log = StageOrder
              /\ frame.result[1].garment_detected = c.garment_type
              /\ frame.result[1].confidence = c.confidence

\* C25: a result for a classification of confidence 0.0, below the
\* threshold.
C25_Witness ==
    /\ gpc = "returned"
    /\ PositiveImages
    /\ frame.classification # <<>>
    /\ frame.classification[1].confidence = 0
    /\ frame.classification[1].confidence < CONFIDENCE_THRESHOLD
    /\ frame.result[1].garment_detected = "shirt"

\* ------------------------------------- claims on the pipeline instance
\* C24: under every interleaving of the API requests get_pipeline makes at
\* most one InferencePipeline: every request whose call returned holds the
\* object that is in the global, a request makes an object only while the
\* global is unset, a request whose construction failed got no object, left
\* the global as it was and goes to its error response without using a
\* pipeline, and every other request that is past get_pipeline has the
\* object, whether or not an earlier construction failed.
PastGetPipeline ==
    { "generate", "read_person", "read_garment", "person_pending",
      "garment_pending", "inferring", "clear_cache", "clearing", "classify",
      "respond", "done" }

C24_SingleInstance ==
    /\ srv.pipeline <= 1
    /\ srv.instance = srv.pipeline
    /\ \A t \in Requests :
          /\ srv.got[t] # 0 => srv.got[t] = srv.instance
          /\ srv.pc[t] = "construct" => srv.instance = 0
          /\ t \in srv.failed =>
                /\ srv.got[t] = 0
                /\ srv.pc[t] \in { "respond", "done" }
                /\ t \notin srv.inferring \cup srv.clearing
          /\ (srv.pc[t] \in PastGetPipeline /\ t \notin srv.failed) =>
                srv.got[t] # 0
          /\ srv.pc[t] \in { "none", "pending", "get_pipeline", "construct" }
                => srv.got[t] = 0

\* C24: the construction failed for one request, which has answered; a
\* later request made the object and a third one was given the same object.
C24_Witness ==
    \E t, u, v \in Requests :
        /\ t \in srv.failed /\ srv.pc[t] = "done"
        /\ u # v
        /\ srv.got[u] = 1 /\ srv.got[v] = 1
        /\ srv.pipeline = 1
        /\ srv.pc[v] = "inferring"

====
